---- MODULE Spec2Model ----
(***************************************************************************)
(* Workspace quality orchestrator: the lint-quality process                *)
(* (scripts/lint-quality.mjs: QualityMetrics, categorizePackages,          *)
(* parseESLintOutput, runQualityLint, main) and the quality gate           *)
(* (scripts/quality-gate.mjs: QualityGate).                                *)
(*                                                                         *)
(* Numbers.  A JavaScript number is a record [t, v]: t = "number" with the *)
(* value v, t = "NaN", or t = "null" (what JSON holds for NaN).  The lint  *)
(* quality score is kept in hundredths (v = 9667 is 96.67): the code       *)
(* rounds it to two decimals, so every score it stores is a whole number   *)
(* of hundredths.  The gate score is a whole percentage.                   *)
(*                                                                         *)
(* Steps.  execSync and writeFileSync block the single thread of the       *)
(* process; the model takes one step per tool invocation and one per       *)
(* report write, the places where the environment decides the outcome.     *)
(***************************************************************************)
EXTENDS Integers, Sequences, FiniteSets, TLC

VARIABLES
  pc,            \* position of the lint process
  packages,      \* argument of runQualityLint (sorted in place by categorizePackages)
  heavy,         \* the three tier lists returned by categorizePackages
  medium,
  light,
  i,             \* index of the heavy loop
  metrics,       \* QualityMetrics.metrics of the run
  reportFile,    \* lint-quality-report.json
  invocations,   \* history: the tool invocations of the run, in order
  inserted,      \* history: the addPackageResult calls of the run, in order
  finalizeCalls, \* history: number of finalize() calls of the run
  written,       \* history: the run wrote the report file
  exitCode,      \* <<>> while the process runs, <<code>> once it has exited
  prevRun,       \* history: what the preceding run computed and persisted
  results,       \* QualityGate.results
  gpc,           \* position of the gate process
  includeBuild,  \* process.argv of the gate holds --include-build
  gateExit,      \* <<>> while the gate runs, <<code>> once it has exited
  gateLog,       \* history: what the checkers of the gate met
  cacheFile,     \* .lint-cache.json
  workspace,     \* the directory tree under the workspace root
  dpc,           \* position of getLintablePackages
  found,         \* what getLintablePackages returned
  discLog        \* history: the scans and cache writes of getLintablePackages

lintVars == <<pc, packages, heavy, medium, light, i, metrics, reportFile,
              invocations, inserted, finalizeCalls, written, exitCode, prevRun>>
gateVars == <<results, gpc, includeBuild, gateExit, gateLog>>
discVars == <<cacheFile, workspace, dpc, found, discLog>>
vars == <<pc, packages, heavy, medium, light, i, metrics, reportFile,
          invocations, inserted, finalizeCalls, written, exitCode, prevRun,
          results, gpc, includeBuild, gateExit, gateLog,
          cacheFile, workspace, dpc, found, discLog>>

(***************************************************************************)
(* Bounds of the model.                                                    *)
(***************************************************************************)
MaxPkgs == 3
MaxTrendPkgs == 1
MaxChecks == 20

(***************************************************************************)
(* JavaScript numbers.                                                     *)
(***************************************************************************)
Num(v) == [t |-> "number", v |-> v]
NaN == [t |-> "NaN", v |-> 0]
Null == [t |-> "null", v |-> 0]

\* Math.round of the rational num/den (den > 0): the nearest integer, ties up.
MathRound(num, den) == (2 * num + den) \div (2 * den)

\* x < n and x >= n for a number x and an integer n; false when x is NaN.
\* (JsLessNaN: a comparison that NaN and null satisfy.)
JsLessNaN(x, n) == x.t # "number" \/ x.v < n
JsLess(x, n) == x.t = "number" /\ x.v < n
JsGreaterEq(x, n) == x.t = "number" /\ x.v >= n

\* x || 0
OrZero(x) == IF x.t = "number" /\ x.v # 0 THEN x ELSE Num(0)

\* JSON.stringify followed by JSON.parse of a number: NaN is written as null.
JSONNumber(x) == IF x.t = "number" THEN x ELSE Null

(***************************************************************************)
(* Packages.  The workspaces of the model are lists of distinct entries of *)
(* a catalog; two entries share the name n8n-workflow.                     *)
(***************************************************************************)
Catalog ==
  { [name |-> "n8n-nodes-base", path |-> "packages/nodes-base",
     size |-> 1000001, hasTypescript |-> TRUE, hasTests |-> TRUE],
    [name |-> "n8n", path |-> "packages/cli",
     size |-> 1000001, hasTypescript |-> TRUE, hasTests |-> FALSE],
    [name |-> "n8n-core", path |-> "packages/core",
     size |-> 500001, hasTypescript |-> TRUE, hasTests |-> TRUE],
    [name |-> "n8n-workflow", path |-> "packages/workflow",
     size |-> 1000000, hasTypescript |-> TRUE, hasTests |-> TRUE],
    [name |-> "@n8n/design-system", path |-> "packages/frontend/design-system",
     size |-> 500000, hasTypescript |-> FALSE, hasTests |-> TRUE],
    [name |-> "@n8n/utils", path |-> "packages/@n8n/utils",
     size |-> 1200, hasTypescript |-> TRUE, hasTests |-> FALSE],
    [name |-> "n8n-workflow", path |-> "packages/extensions/workflow",
     size |-> 600000, hasTypescript |-> FALSE, hasTests |-> FALSE] }

PackageLists(n) ==
  UNION { { s \in [1..k -> Catalog] : \A a, b \in 1..k : a # b => s[a] # s[b] } : k \in 0..n }

\* name.includes(sub), for the substrings categorizePackages looks for.
NameIncludes(name, sub) ==
  CASE name = "n8n-nodes-base" -> sub = "nodes-base"
    [] name = "@n8n/nodes-base-core" -> sub \in {"nodes-base", "core"}
    [] name = "n8n-core" -> sub = "core"
    [] name = "@n8n/design-system" -> sub = "design-system"
    [] OTHER -> FALSE

(***************************************************************************)
(* categorizePackages.                                                     *)
(***************************************************************************)
\* The comparator of packages.sort: negative puts a before b.
\* (CompareSizeAsc: the operands swapped, an ascending sort.)
CompareSizeAsc(a, b) == a.size - b.size
CompareSize(a, b) == b.size - a.size

\* Array.prototype.sort is stable: p, which came after every element of the
\* sorted s, goes behind the elements that do not compare greater than it.
RECURSIVE InsertSorted(_, _)
InsertSorted(s, p) ==
  IF s = <<>> THEN <<p>>
  ELSE IF CompareSize(Head(s), p) <= 0
       THEN <<Head(s)>> \o InsertSorted(Tail(s), p)
       ELSE <<p>> \o s

RECURSIVE SortPackages(_)
SortPackages(s) ==
  IF s = <<>> THEN <<>>
  ELSE InsertSorted(SortPackages(SubSeq(s, 1, Len(s) - 1)), s[Len(s)])

LargeSize == 1000000
MidSize == 500000
HeavyWeight == 4
MediumWeight == 2

sizeWeight(pkg) == IF pkg.size > LargeSize THEN 2 ELSE IF pkg.size > MidSize THEN 1 ELSE 0
complexityWeight(pkg) ==
  (IF pkg.hasTypescript THEN 1 ELSE 0) + (IF pkg.hasTests THEN 1 ELSE 0)
\* (nameWeightAdditive: 2 and 1 added for a name with both kinds of pattern.)
nameWeightAdditive(pkg) ==
  (IF NameIncludes(pkg.name, "nodes-base") \/ pkg.name = "n8n"
      \/ NameIncludes(pkg.name, "editor-ui")
   THEN 2 ELSE 0)
  + (IF NameIncludes(pkg.name, "core") \/ NameIncludes(pkg.name, "cli")
        \/ NameIncludes(pkg.name, "design-system")
     THEN 1 ELSE 0)
nameWeight(pkg) ==
  IF NameIncludes(pkg.name, "nodes-base") \/ pkg.name = "n8n"
     \/ NameIncludes(pkg.name, "editor-ui")
  THEN 2
  ELSE IF NameIncludes(pkg.name, "core") \/ NameIncludes(pkg.name, "cli")
          \/ NameIncludes(pkg.name, "design-system")
       THEN 1
       ELSE 0
totalWeight(pkg) == sizeWeight(pkg) + complexityWeight(pkg) + nameWeight(pkg)

\* (TierStrict: > in place of >= at both thresholds.)
TierStrict(pkg) ==
  IF totalWeight(pkg) > HeavyWeight THEN "heavy"
  ELSE IF totalWeight(pkg) > MediumWeight THEN "medium"
  ELSE "light"
Tier(pkg) ==
  IF totalWeight(pkg) >= HeavyWeight THEN "heavy"
  ELSE IF totalWeight(pkg) >= MediumWeight THEN "medium"
  ELSE "light"

IsHeavy(pkg) == Tier(pkg) = "heavy"
IsMedium(pkg) == Tier(pkg) = "medium"
IsLight(pkg) == Tier(pkg) = "light"

\* The result record, with the sorted array the argument has become.
categorizePackages(pkgs) ==
  LET sortedPackages == SortPackages(pkgs)
  IN [sorted |-> sortedPackages,
      heavy |-> SelectSeq(sortedPackages, IsHeavy),
      medium |-> SelectSeq(sortedPackages, IsMedium),
      light |-> SelectSeq(sortedPackages, IsLight)]

(***************************************************************************)
(* Tool output and parseESLintOutput.  An output is the sequence of its    *)
(* lines; a line is one of four texts.                                     *)
(***************************************************************************)
LineOk == "Tasks: 1 successful, 1 total"
LineError == "  12:5  error  Unexpected any"
LineWarning == "  3:1  warning  Missing return type"
LineBoth == "2 problems (1 error, 1 warning)"

\* line.includes(token), for the tokens parseESLintOutput looks for.
LineIncludes(line, token) ==
  CASE line = LineError -> token = "error"
    [] line = LineWarning -> token = "warning"
    [] line = LineBoth -> token \in {"error", "warning"}
    [] OTHER -> FALSE

Repeat(line, n) == [k \in 1..n |-> line]

\* A clean output, one of 7 errors and 3 warnings, one of 6 and 6.
ToolOutputs ==
  { <<LineOk>>,
    Repeat(LineError, 6) \o <<LineBoth>> \o Repeat(LineWarning, 2) \o <<LineOk>>,
    Repeat(LineBoth, 6) }

RECURSIVE CountLines(_, _)
CountLines(lines, token) ==
  IF lines = <<>> THEN 0
  ELSE (IF LineIncludes(Head(lines), token) THEN 1 ELSE 0) + CountLines(Tail(lines), token)

parseESLintOutput(output) ==
  [errors |-> CountLines(output, "error"), warnings |-> CountLines(output, "warning")]

\* What one execSync call does: exit status 0 with its output, or a throw
\* (non-zero exit or timeout), whatever was printed before.
Outcomes == [kind : {"exit0", "nonzero", "timeout"}, output : ToolOutputs]
ExecThrows(o) == o.kind # "exit0"

(***************************************************************************)
(* QualityMetrics.                                                         *)
(***************************************************************************)
NoFile == [state |-> "missing", qualityScore |-> Null, errors |-> 0, warnings |-> 0]
CorruptFile == [state |-> "corrupt", qualityScore |-> Null, errors |-> 0, warnings |-> 0]

\* JSON.stringify(this.metrics): the fields a later reader takes from it.
JSONReport(m) ==
  [state |-> "json", qualityScore |-> JSONNumber(m.qualityScore),
   errors |-> m.errors, warnings |-> m.warnings]

loadPreviousScore(file) ==
  IF file.state = "missing" THEN Num(0)
  ELSE IF file.state = "corrupt" THEN Num(0)
  ELSE OrZero(file.qualityScore)

NewMetrics(file) ==
  [totalPackages |-> 0, lintedPackages |-> 0, errors |-> 0, warnings |-> 0,
   packageResults |-> <<>>, qualityScore |-> Num(0),
   previousScore |-> loadPreviousScore(file)]

\* packageResults[packageName] = result
SetResult(pr, name, result) ==
  [n \in (DOMAIN pr) \cup {name} |-> IF n = name THEN result ELSE pr[n]]

\* (addPackageResultNoWarnings: the warnings of the result not added.)
\* (addPackageResultNoCount: the counter left alone.)
addPackageResultNoCount(m, name, result) ==
  [m EXCEPT !.packageResults = SetResult(m.packageResults, name, result),
            !.errors = @ + result.errors,
            !.warnings = @ + result.warnings]
addPackageResultNoWarnings(m, name, result) ==
  [m EXCEPT !.packageResults = SetResult(m.packageResults, name, result),
            !.errors = @ + result.errors,
            !.lintedPackages = @ + 1]
addPackageResult(m, name, result) ==
  [m EXCEPT !.packageResults = SetResult(m.packageResults, name, result),
            !.errors = @ + result.errors,
            !.warnings = @ + result.warnings,
            !.lintedPackages = @ + 1]

\* Math.max(0, Math.min(100, num/den)) as a fraction <<num, den>>.
\* (ClampNoFloor: without Math.max(0, ...).)
ClampNoFloor(num, den) == IF num > 100 * den THEN <<100, 1>> ELSE <<num, den>>
Clamp(num, den) ==
  IF num < 0 THEN <<0, 1>> ELSE IF num > 100 * den THEN <<100, 1>> ELSE <<num, den>>

IssuesPerPackage == 10

\* The score in hundredths.  0/0 is NaN and passes through max, min and round;
\* n/0 with n > 0 is Infinity, and 100 - Infinity is clamped to 0.
\* (calculateQualityScoreWeighted: an error counted as two issues.)
calculateQualityScoreWeighted(m) ==
  LET totalIssues == 2 * m.errors + m.warnings
      maxIssues == m.lintedPackages * IssuesPerPackage
  IN IF maxIssues = 0
     THEN (IF totalIssues = 0 THEN NaN ELSE Num(0))
     ELSE LET score == Clamp(100 * (maxIssues - totalIssues), maxIssues)
          IN Num(MathRound(100 * score[1], score[2]))
calculateQualityScore(m) ==
  LET totalIssues == m.errors + m.warnings
      maxIssues == m.lintedPackages * IssuesPerPackage
  IN IF maxIssues = 0
     THEN (IF totalIssues = 0 THEN NaN ELSE Num(0))
     ELSE LET score == Clamp(100 * (maxIssues - totalIssues), maxIssues)
          IN Num(MathRound(100 * score[1], score[2]))

(***************************************************************************)
(* runQualityLint.                                                         *)
(***************************************************************************)
\* The order of the tier blocks in the body of runQualityLint.
\* (StageOrderLightFirst: the light block moved before the medium block.)
StageOrderLightFirst == <<"heavy", "light", "medium">>
StageOrder == <<"heavy", "medium", "light">>

StageIndex(stage) == CHOOSE k \in 1..Len(StageOrder) : StageOrder[k] = stage
StageList(stage, h, m, l) ==
  IF stage = "heavy" THEN h ELSE IF stage = "medium" THEN m ELSE l

\* The first tier block from position k on whose guard (a non-empty list) lets
\* it run; the finalize() call of the try block when there is none.
RECURSIVE StageFrom(_, _, _, _)
StageFrom(k, h, m, l) ==
  IF k > Len(StageOrder) THEN "finalize"
  ELSE IF Len(StageList(StageOrder[k], h, m, l)) > 0 THEN StageOrder[k]
  ELSE StageFrom(k + 1, h, m, l)

StageAfter(stage, h, m, l) == StageFrom(StageIndex(stage) + 1, h, m, l)

\* (HeavyFailedResultAsSuccess: a throw swallowed as a clean result.)
HeavyFailedResultAsSuccess == [errors |-> 0, warnings |-> 0, status |-> "success"]
HeavyFailedResult == [errors |-> 1, warnings |-> 0, status |-> "failed"]
HeavySuccessResult(output) ==
  LET result == parseESLintOutput(output)
  IN [errors |-> result.errors, warnings |-> result.warnings, status |-> "success"]

\* (BatchFailedResultParsed: the partial output of a failed batch parsed.)
BatchFailedResultParsed(output, n) ==
  LET batchResult == parseESLintOutput(output)
  IN [errors |-> MathRound(batchResult.errors, n),
      warnings |-> MathRound(batchResult.warnings, n), status |-> "success"]
BatchFailedResult(output, n) == [errors |-> 1, warnings |-> 0, status |-> "failed"]
\* (BatchSuccessResultFloor: the totals divided and truncated.)
BatchSuccessResultFloor(output, n) ==
  LET batchResult == parseESLintOutput(output)
  IN [errors |-> batchResult.errors \div n,
      warnings |-> batchResult.warnings \div n, status |-> "success"]
BatchSuccessResult(output, n) ==
  LET batchResult == parseESLintOutput(output)
  IN [errors |-> MathRound(batchResult.errors, n),
      warnings |-> MathRound(batchResult.warnings, n), status |-> "success"]

\* members.forEach(pkg => metrics.addPackageResult(pkg.name, result))
RECURSIVE AddAll(_, _, _)
AddAll(m, members, result) ==
  IF members = <<>> THEN m
  ELSE AddAll(addPackageResult(m, Head(members).name, result), Tail(members), result)

Insertion(pkg, result) == [name |-> pkg.name, path |-> pkg.path, result |-> result]
Invocation(tier, members, o) ==
  [tier |-> tier, paths |-> [k \in 1..Len(members) |-> members[k].path],
   threw |-> ExecThrows(o), at |-> Len(inserted),
   parsed |-> IF ExecThrows(o) THEN [errors |-> 0, warnings |-> 0]
              ELSE parseESLintOutput(o.output)]

\* A process is launched: main calls runQualityLint(pkgs), which constructs
\* the metrics, returns through finalize() for an empty list and categorizes
\* otherwise.
StartRun(pkgs) ==
  /\ pc = "idle"
  /\ LET cat == categorizePackages(pkgs)
     IN /\ metrics' = [NewMetrics(reportFile) EXCEPT !.totalPackages = Len(pkgs)]
        /\ IF Len(pkgs) = 0
           THEN /\ pc' = "finalizeEmpty"
                /\ packages' = pkgs
                /\ heavy' = <<>> /\ medium' = <<>> /\ light' = <<>>
           ELSE /\ pc' = StageFrom(1, cat.heavy, cat.medium, cat.light)
                /\ packages' = cat.sorted
                /\ heavy' = cat.heavy /\ medium' = cat.medium /\ light' = cat.light
  /\ i' = 1
  /\ UNCHANGED <<reportFile, invocations, inserted, finalizeCalls, written, exitCode,
                 prevRun, gateVars, discVars>>

\* One pass of the heavy loop: the invocation of heavy[i] and its result.
LintHeavy ==
  /\ pc = "heavy"
  /\ i <= Len(heavy)
  /\ \E o \in Outcomes :
       LET pkg == heavy[i]
           result == IF ExecThrows(o) THEN HeavyFailedResult
                     ELSE HeavySuccessResult(o.output)
       IN /\ metrics' = addPackageResult(metrics, pkg.name, result)
          /\ invocations' = Append(invocations, Invocation("heavy", <<pkg>>, o))
          /\ inserted' = Append(inserted, Insertion(pkg, result))
  /\ i' = i + 1
  /\ pc' = IF i + 1 > Len(heavy) THEN StageAfter("heavy", heavy, medium, light) ELSE "heavy"
  /\ UNCHANGED <<packages, heavy, medium, light, reportFile, finalizeCalls, written,
                 exitCode, prevRun, gateVars, discVars>>

\* The batch invocation of a tier and the results of its members.
LintBatch(tier, members) ==
  /\ pc = tier
  /\ \E o \in Outcomes :
       LET result == IF ExecThrows(o) THEN BatchFailedResult(o.output, Len(members))
                     ELSE BatchSuccessResult(o.output, Len(members))
       IN /\ metrics' = AddAll(metrics, members, result)
          /\ invocations' = Append(invocations, Invocation(tier, members, o))
          /\ inserted' = inserted \o [k \in 1..Len(members) |-> Insertion(members[k], result)]
  /\ pc' = StageAfter(tier, heavy, medium, light)
  /\ UNCHANGED <<packages, heavy, medium, light, i, reportFile, finalizeCalls, written,
                 exitCode, prevRun, gateVars, discVars>>

LintMedium == LintBatch("medium", medium)
LintLight == LintBatch("light", light)

\* finalize(): at the return for an empty list, at the end of the try block,
\* or in the catch block.  writeFileSync writes the report or throws; a throw
\* inside the try block enters the catch block, any other rejects main().
finalize ==
  /\ pc \in {"finalizeEmpty", "finalize", "catch"}
  /\ LET m == [metrics EXCEPT !.qualityScore = calculateQualityScore(metrics)]
     IN /\ metrics' = m
        /\ finalizeCalls' = finalizeCalls + 1
        /\ \E ok \in BOOLEAN :
             IF ok
             THEN /\ reportFile' = JSONReport(m)
                  /\ written' = TRUE
                  /\ pc' = "returned"
             ELSE /\ UNCHANGED <<reportFile, written>>
                  /\ pc' = IF pc = "finalize" THEN "catch" ELSE "rejected"
  /\ UNCHANGED <<packages, heavy, medium, light, i, invocations, inserted, exitCode,
                 prevRun, gateVars, discVars>>

ExitThreshold == 70

\* main after runQualityLint has returned: exit(1) below 70 (the score is in
\* hundredths), else the process ends with code 0.
MainExit ==
  /\ pc = "returned"
  /\ exitCode' = IF JsLess(metrics.qualityScore, ExitThreshold * 100) THEN <<1>> ELSE <<0>>
  /\ pc' = "exited"
  /\ UNCHANGED <<packages, heavy, medium, light, i, metrics, reportFile, invocations,
                 inserted, finalizeCalls, written, prevRun, gateVars, discVars>>

\* main().catch
MainCatch ==
  /\ pc = "rejected"
  /\ exitCode' = <<1>>
  /\ pc' = "exited"
  /\ UNCHANGED <<packages, heavy, medium, light, i, metrics, reportFile, invocations,
                 inserted, finalizeCalls, written, prevRun, gateVars, discVars>>

\* The process is gone; the report file stays for the next run.
Relaunch ==
  /\ pc = "exited"
  /\ pc' = "idle"
  /\ prevRun' = [ran |-> TRUE, persisted |-> written, qualityScore |-> metrics.qualityScore]
  /\ packages' = <<>> /\ heavy' = <<>> /\ medium' = <<>> /\ light' = <<>>
  /\ i' = 1
  /\ metrics' = NewMetrics(NoFile)
  /\ invocations' = <<>> /\ inserted' = <<>>
  /\ finalizeCalls' = 0 /\ written' = FALSE
  /\ exitCode' = <<>>
  /\ UNCHANGED <<reportFile, gateVars, discVars>>

(***************************************************************************)
(* getLintablePackages.                                                    *)
(***************************************************************************)
\* The JSON text of a value: its type and its literal.
JSONString(str) == [t |-> "string", s |-> str, n |-> 0, b |-> FALSE]
JSONNum(num) == [t |-> "number", s |-> "", n |-> num, b |-> FALSE]
JSONBool(bool) == [t |-> "boolean", s |-> "", n |-> 0, b |-> bool]

\* JSON.stringify(packages): an array of objects, each the key/value pairs of
\* a package in the order of its properties.
StringifyPackage(pkg) ==
  << <<"name", JSONString(pkg.name)>>,
     <<"path", JSONString(pkg.path)>>,
     <<"lastModified", JSONNum(pkg.lastModified)>>,
     <<"hasTypescript", JSONBool(pkg.hasTypescript)>>,
     <<"hasTests", JSONBool(pkg.hasTests)>>,
     <<"isPrivate", JSONBool(pkg.isPrivate)>>,
     <<"size", JSONNum(pkg.size)>> >>
Stringify(pkgs) == [k \in 1..Len(pkgs) |-> StringifyPackage(pkgs[k])]

\* JSON.parse of such a text.
ValueOf(object, key) == object[CHOOSE k \in DOMAIN object : object[k][1] = key][2]
\* (ParsePackageNoPrivate: isPrivate is not read back.)
ParsePackageNoPrivate(object) ==
  [name |-> ValueOf(object, "name").s,
   path |-> ValueOf(object, "path").s,
   lastModified |-> ValueOf(object, "lastModified").n,
   hasTypescript |-> ValueOf(object, "hasTypescript").b,
   hasTests |-> ValueOf(object, "hasTests").b,
   isPrivate |-> FALSE,
   size |-> ValueOf(object, "size").n]
ParsePackage(object) ==
  [name |-> ValueOf(object, "name").s,
   path |-> ValueOf(object, "path").s,
   lastModified |-> ValueOf(object, "lastModified").n,
   hasTypescript |-> ValueOf(object, "hasTypescript").b,
   hasTests |-> ValueOf(object, "hasTests").b,
   isPrivate |-> ValueOf(object, "isPrivate").b,
   size |-> ValueOf(object, "size").n]
Parse(text) == [k \in 1..Len(text) |-> ParsePackage(text[k])]

\* .lint-cache.json: missing, a JSON text or something JSON.parse rejects;
\* age is Date.now() minus its mtime, in milliseconds.
NoCache == [state |-> "missing", age |-> 0, content |-> <<>>]
CorruptCache(age) == [state |-> "corrupt", age |-> age, content |-> <<>>]
JSONCache(age, pkgs) == [state |-> "json", age |-> age, content |-> Stringify(pkgs)]

CacheTTL == 3600000

\* The cache is read: it exists, is younger than the TTL and parses.
CacheValid(cache) ==
  cache.state # "missing" /\ cache.age < CacheTTL /\ cache.state = "json"

\* A directory: whether it exists and readdirSync can read it, its
\* package.json ("none": no such file; "lint": has scripts.lint; "nolint":
\* has no scripts.lint; "corrupt": JSON.parse throws), the package the scan
\* makes of it, and its subdirectories.
NoPackage ==
  [name |-> "", path |-> "", lastModified |-> 0, hasTypescript |-> FALSE,
   hasTests |-> FALSE, isPrivate |-> FALSE, size |-> 0]
Discovered(pkg, lastModified, isPrivate) ==
  [name |-> pkg.name, path |-> pkg.path, lastModified |-> lastModified,
   hasTypescript |-> pkg.hasTypescript, hasTests |-> pkg.hasTests,
   isPrivate |-> isPrivate, size |-> pkg.size]
PackageDir(manifest, pkg) ==
  [exists |-> TRUE, readable |-> TRUE, manifest |-> manifest, pkg |-> pkg, entries |-> <<>>]
PlainDir(readable, entries) ==
  [exists |-> TRUE, readable |-> readable, manifest |-> "none", pkg |-> NoPackage,
   entries |-> entries]
NoWorkspace ==
  [exists |-> FALSE, readable |-> FALSE, manifest |-> "none", pkg |-> NoPackage,
   entries |-> <<>>]

\* scanDirectory(dir): the packages it pushes, or threw when a readdirSync
\* throws, which nothing in getLintablePackages catches.
RECURSIVE scanEntries(_, _)
scanDirectory(dir) ==
  IF ~dir.exists THEN [threw |-> FALSE, packages |-> <<>>]
  ELSE IF ~dir.readable THEN [threw |-> TRUE, packages |-> <<>>]
  ELSE scanEntries(dir.entries, <<>>)
scanEntries(entries, pushed) ==
  IF entries = <<>> THEN [threw |-> FALSE, packages |-> pushed]
  ELSE LET entry == Head(entries)
       IN IF entry.manifest = "lint" THEN scanEntries(Tail(entries), Append(pushed, entry.pkg))
          ELSE IF entry.manifest # "none" THEN scanEntries(Tail(entries), pushed)
          ELSE LET sub == scanDirectory(entry)
               IN IF sub.threw THEN [threw |-> TRUE, packages |-> pushed \o sub.packages]
                  ELSE scanEntries(Tail(entries), pushed \o sub.packages)

\* History of the calls of getLintablePackages: the cache each call met,
\* whether it scanned, what became of its cache write, whether it threw and
\* what it returned.
NewDiscLog == <<>>
Call(before, scanned, write, threw, returned) ==
  [before |-> before, scanned |-> scanned, write |-> write, threw |-> threw,
   returned |-> returned]

MaxCalls == 2

\* writeFileSync(cacheFile, ...): the file afterwards when the write succeeds,
\* is refused, or fails after the file has been truncated.
WriteOutcomes == {"ok", "refused", "truncated"}
AfterWrite(cache, outcome, pkgs) ==
  IF outcome = "ok" THEN JSONCache(0, pkgs)
  ELSE IF outcome = "truncated" THEN CorruptCache(0)
  ELSE cache

\* getLintablePackages, from the cache check to the return.
getLintablePackages ==
  /\ dpc \in {"main", "returned"}
  /\ Len(discLog) < MaxCalls
  /\ IF CacheValid(cacheFile)
     THEN /\ found' = Parse(cacheFile.content)
          /\ dpc' = "returned"
          /\ discLog' = Append(discLog, Call(cacheFile, FALSE, "none", FALSE, Parse(cacheFile.content)))
          /\ UNCHANGED cacheFile
     ELSE LET scan == scanDirectory(workspace)
          IN IF scan.threw
             THEN /\ dpc' = "threw"
                  /\ discLog' = Append(discLog, Call(cacheFile, TRUE, "none", TRUE, <<>>))
                  /\ UNCHANGED <<found, cacheFile>>
             ELSE \E outcome \in WriteOutcomes :
                    /\ cacheFile' = AfterWrite(cacheFile, outcome, scan.packages)
                    /\ discLog' = Append(discLog, Call(cacheFile, TRUE, outcome, outcome # "ok",
                                    IF outcome = "ok" THEN scan.packages ELSE <<>>))
                    /\ IF outcome = "ok"
                       THEN found' = scan.packages /\ dpc' = "returned"
                       ELSE dpc' = "threw" /\ UNCHANGED found
  /\ UNCHANGED <<lintVars, gateVars, workspace>>

\* Time passes: the cache file gets older.
CacheAges == <<0, 3599999, 3600000, 3600001>>
Tick ==
  /\ dpc \in {"main", "returned"}
  /\ cacheFile.state # "missing"
  /\ \E k \in 1..(Len(CacheAges) - 1) :
       /\ cacheFile.age = CacheAges[k]
       /\ cacheFile' = [cacheFile EXCEPT !.age = CacheAges[k + 1]]
  /\ UNCHANGED <<lintVars, gateVars, workspace, dpc, found, discLog>>

\* main().catch of the lint script when getLintablePackages threw.
DiscoveryFailed ==
  /\ dpc = "threw"
  /\ dpc' = "exited"
  /\ exitCode' = <<1>>
  /\ UNCHANGED <<pc, packages, heavy, medium, light, i, metrics, reportFile, invocations,
                 inserted, finalizeCalls, written, prevRun, gateVars, cacheFile, workspace,
                 found, discLog>>


(***************************************************************************)
(* QualityGate.                                                            *)
(***************************************************************************)
NewResults == [passed |-> FALSE, checks |-> <<>>, score |-> Num(0), recommendations |-> <<>>]

PassPercent == 85

IsPassed(check) == check.passed

\* (VerdictStrict: > in place of >=.)
VerdictStrict(score) == score.t = "number" /\ score.v > PassPercent
Verdict(score) == JsGreaterEq(score, PassPercent)

\* Math.round((passedChecks / totalChecks) * 100); 0/0 is NaN.
\* (calculateScoreCount: the number of passed checks taken as the score.)
calculateScoreCount(r) ==
  LET passedChecks == Len(SelectSeq(r.checks, IsPassed))
      score == Num(passedChecks)
  IN [r EXCEPT !.score = score, !.passed = Verdict(score)]
calculateScore(r) ==
  LET passedChecks == Len(SelectSeq(r.checks, IsPassed))
      totalChecks == Len(r.checks)
      score == IF totalChecks = 0 THEN NaN ELSE Num(MathRound(passedChecks * 100, totalChecks))
  IN [r EXCEPT !.score = score, !.passed = Verdict(score)]

CalculateScore ==
  /\ gpc = "checked"
  /\ results' = calculateScore(results)
  /\ gpc' = "scored"
  /\ UNCHANGED <<lintVars, includeBuild, gateExit, gateLog, discVars>>

(***************************************************************************)
(* The checkers of the gate and runAllChecks.  A message is its fixed text *)
(* and the number printed in it; a recommendation is the name and message  *)
(* of the check it is about.                                               *)
(***************************************************************************)
MinQualityScore == 80
MaxErrors == 0
MaxWarnings == 10
TodoLimit == 50

Message(text, n) == [text |-> text, n |-> n]
Fix(name, message) == [fix |-> name, message |-> message]

\* A JSON null compared with a number counts as 0.
ToNumber(x) == IF x.t = "null" THEN Num(0) ELSE x

\* (addCheckFixAlways: the recommendation pushed for passed checks too.)
addCheckFixAlways(r, name, passed, message, score) ==
  [r EXCEPT !.checks = Append(@, [name |-> name, passed |-> passed,
                                  message |-> message, score |-> score]),
            !.recommendations = Append(@, Fix(name, message))]
addCheck(r, name, passed, message, score) ==
  [r EXCEPT !.checks = Append(@, [name |-> name, passed |-> passed,
                                  message |-> message, score |-> score]),
            !.recommendations = IF ~passed THEN Append(@, Fix(name, message)) ELSE @]

NewGateLog == [threw |-> <<>>, read |-> <<>>, scanned |-> <<>>, returned |-> <<>>]
LogThrow(log, checker) == [log EXCEPT !.threw = Append(@, checker)]

\* What checkLintQuality met and what it returned: 0 from its catch block,
\* the score of the report otherwise.
LintQualityThrew(log) ==
  [LogThrow(log, "Lint Quality") EXCEPT !.returned = Append(@, Num(0))]
LintQualityRead(log, report) ==
  [log EXCEPT !.read = Append(@, report), !.returned = Append(@, report.qualityScore)]

\* JSON.parse(readFileSync(reportFile)) throws for a missing or unreadable file.
ReadThrows(file) == file.state # "json"

\* The catch block of checkLintQuality.
\* (LintQualityCaughtPassed: the check of the catch block recorded as passed.)
LintQualityCaughtPassed(r) ==
  addCheck(r, "Lint Quality", TRUE, Message("Failed to check lint quality", Num(0)), Num(0))
LintQualityCaught(r) ==
  addCheck(r, "Lint Quality", FALSE, Message("Failed to check lint quality", Num(0)), Num(0))

\* The three checks of checkLintQuality on the report it has read; the score
\* of the report is in hundredths.
\* (LintQualityChecksStrict: > in place of >= for the score.)
LintQualityChecksStrict(r, report) ==
  LET c1 == addCheck(r, "Lint Quality Score",
                     ToNumber(report.qualityScore).t = "number"
                       /\ ToNumber(report.qualityScore).v > MinQualityScore * 100,
                     Message("% (min: 80%)", report.qualityScore), report.qualityScore)
      c2 == addCheck(c1, "Error Count", report.errors <= MaxErrors,
                     Message("errors (max: 0)", Num(report.errors)), Num(0))
  IN addCheck(c2, "Warning Count", report.warnings <= MaxWarnings,
              Message("warnings (max: 10)", Num(report.warnings)), Num(0))
LintQualityChecks(r, report) ==
  LET c1 == addCheck(r, "Lint Quality Score",
                     JsGreaterEq(ToNumber(report.qualityScore), MinQualityScore * 100),
                     Message("% (min: 80%)", report.qualityScore), report.qualityScore)
      c2 == addCheck(c1, "Error Count", report.errors <= MaxErrors,
                     Message("errors (max: 0)", Num(report.errors)), Num(0))
  IN addCheck(c2, "Warning Count", report.warnings <= MaxWarnings,
              Message("warnings (max: 10)", Num(report.warnings)), Num(0))

\* The lint process the gate had launched is gone.
LintProcessGone ==
  /\ pc' = "idle"
  /\ packages' = <<>> /\ heavy' = <<>> /\ medium' = <<>> /\ light' = <<>>
  /\ i' = 1
  /\ metrics' = NewMetrics(NoFile)
  /\ invocations' = <<>> /\ inserted' = <<>>
  /\ finalizeCalls' = 0 /\ written' = FALSE
  /\ exitCode' = <<>>
  /\ UNCHANGED <<reportFile, prevRun>>

\* checkLintQuality with no report file: the lint script is launched.
checkLintQualityLaunch ==
  /\ gpc = "lint"
  /\ reportFile.state = "missing"
  /\ gpc' = "lintChild"
  /\ UNCHANGED <<lintVars, results, includeBuild, gateExit, gateLog, discVars>>

\* checkLintQuality once the lint script has exited: execSync throws on exit
\* code 1, else the report is read.
checkLintQualityChildExit ==
  /\ gpc = "lintChild"
  /\ pc = "exited"
  /\ IF exitCode # <<0>>
     THEN /\ results' = LintQualityCaught(results)
          /\ gateLog' = LintQualityThrew(gateLog)
     ELSE IF ReadThrows(reportFile)
     THEN /\ results' = LintQualityCaught(results)
          /\ gateLog' = LintQualityThrew(gateLog)
     ELSE /\ results' = LintQualityChecks(results, reportFile)
          /\ gateLog' = LintQualityRead(gateLog, reportFile)
  /\ LintProcessGone
  /\ gpc' = "typescript"
  /\ UNCHANGED <<includeBuild, gateExit, discVars>>

\* checkLintQuality with a report file in place.
checkLintQualityRead ==
  /\ gpc = "lint"
  /\ reportFile.state # "missing"
  /\ IF ReadThrows(reportFile)
     THEN /\ results' = LintQualityCaught(results)
          /\ gateLog' = LintQualityThrew(gateLog)
     ELSE /\ results' = LintQualityChecks(results, reportFile)
          /\ gateLog' = LintQualityRead(gateLog, reportFile)
  /\ gpc' = "typescript"
  /\ UNCHANGED <<lintVars, includeBuild, gateExit, discVars>>

\* A checker that is one command: passed when execSync returns.
CommandCheck(r, name, threw, okText, failText) ==
  IF threw THEN addCheck(r, name, FALSE, Message(failText, Num(0)), Num(0))
  ELSE addCheck(r, name, TRUE, Message(okText, Num(0)), Num(0))

checkTypeScript ==
  /\ gpc = "typescript"
  /\ \E threw \in BOOLEAN :
       /\ results' = CommandCheck(results, "TypeScript", threw,
                                  "All TypeScript files compile successfully",
                                  "TypeScript compilation errors detected")
       /\ gateLog' = IF threw THEN LogThrow(gateLog, "TypeScript") ELSE gateLog
  /\ gpc' = "security"
  /\ UNCHANGED <<lintVars, includeBuild, gateExit, discVars>>

\* The files the find command lists: unreadable, or readable with the
\* anti-patterns its content matches.
MaxFiles == 2
SecurityPatterns == {"eval", "innerHTML", "document.write", "password", "api-key"}
FileKinds ==
  { [readable |-> FALSE, matches |-> {"eval"}],
    [readable |-> TRUE, matches |-> {}],
    [readable |-> TRUE, matches |-> {"eval", "password"}] }
FileListings == UNION { [1..n -> FileKinds] : n \in 0..MaxFiles }

\* securityIssues after the loop over the files.
RECURSIVE CountSecurityIssues(_)
CountSecurityIssues(files) ==
  IF files = <<>> THEN 0
  ELSE (IF Head(files).readable
        THEN Cardinality(Head(files).matches \cap SecurityPatterns) ELSE 0)
       + CountSecurityIssues(Tail(files))

\* (SecurityCheckPerIssue: one check per issue found.)
RECURSIVE SecurityCheckPerIssue(_, _)
SecurityCheckPerIssue(r, securityIssues) ==
  IF securityIssues <= 1
  THEN addCheck(r, "Security Scan", securityIssues = 0,
                Message(IF securityIssues = 0 THEN "No security issues detected"
                        ELSE "potential security issues found", Num(securityIssues)), Num(0))
  ELSE SecurityCheckPerIssue(
         addCheck(r, "Security Scan", FALSE,
                  Message("potential security issues found", Num(securityIssues)), Num(0)),
         securityIssues - 1)
SecurityCheck(r, securityIssues) ==
  addCheck(r, "Security Scan", securityIssues = 0,
           Message(IF securityIssues = 0 THEN "No security issues detected"
                   ELSE "potential security issues found", Num(securityIssues)), Num(0))

checkSecurity ==
  /\ gpc = "security"
  /\ \/ /\ results' = addCheck(results, "Security Scan", FALSE,
                               Message("Security check failed", Num(0)), Num(0))
        /\ gateLog' = LogThrow(gateLog, "Security Scan")
     \/ \E files \in FileListings :
          /\ results' = SecurityCheck(results, CountSecurityIssues(files))
          /\ gateLog' = [gateLog EXCEPT !.scanned = Append(@, files)]
  /\ gpc' = "formatting"
  /\ UNCHANGED <<lintVars, includeBuild, gateExit, discVars>>

checkFormatting ==
  /\ gpc = "formatting"
  /\ \E threw \in BOOLEAN :
       /\ results' = CommandCheck(results, "Formatting", threw,
                                  "Code formatting is consistent",
                                  "Code formatting issues detected")
       /\ gateLog' = IF threw THEN LogThrow(gateLog, "Formatting") ELSE gateLog
  /\ gpc' = "todo"
  /\ UNCHANGED <<lintVars, includeBuild, gateExit, discVars>>

\* The counts the wc command of checkTodoComments prints.
TodoCounts == {0, 49, 50}

\* checkTodoComments: its catch block records a passed check.
checkTodoComments ==
  /\ gpc = "todo"
  /\ \/ /\ results' = addCheck(results, "TODO Comments", TRUE,
                               Message("Unable to check TODO comments", Num(0)), Num(0))
        /\ gateLog' = LogThrow(gateLog, "TODO Comments")
     \/ \E todoCount \in TodoCounts :
          /\ results' = addCheck(results, "TODO Comments", todoCount < TodoLimit,
                                 Message("TODO/FIXME comments found", Num(todoCount)), Num(0))
          /\ UNCHANGED gateLog
  /\ gpc' = "deps"
  /\ UNCHANGED <<lintVars, includeBuild, gateExit, discVars>>

\* runAllChecks after checkDependencies: checkBuild only with --include-build.
\* (AfterDependenciesAlwaysBuild: checkBuild whatever the arguments.)
AfterDependenciesAlwaysBuild(build) == "build"
AfterDependencies(build) == IF build THEN "build" ELSE "checked"

\* checkDependencies: the text of the failed check depends on the message of
\* the exception.
checkDependencies ==
  /\ gpc = "deps"
  /\ \/ /\ results' = addCheck(results, "Dependencies", TRUE,
                               Message("No critical dependency vulnerabilities", Num(0)), Num(0))
        /\ UNCHANGED gateLog
     \/ \E isVulnerabilityIssue \in BOOLEAN :
          /\ results' = addCheck(results, "Dependencies", FALSE,
                                 Message(IF isVulnerabilityIssue
                                         THEN "Dependency vulnerabilities detected"
                                         ELSE "Dependency check failed", Num(0)), Num(0))
          /\ gateLog' = LogThrow(gateLog, "Dependencies")
  /\ gpc' = AfterDependencies(includeBuild)
  /\ UNCHANGED <<lintVars, includeBuild, gateExit, discVars>>

checkBuild ==
  /\ gpc = "build"
  /\ \E threw \in BOOLEAN :
       /\ results' = CommandCheck(results, "Build", threw,
                                  "Build process completes successfully",
                                  "Build process failed or timed out")
       /\ gateLog' = IF threw THEN LogThrow(gateLog, "Build") ELSE gateLog
  /\ gpc' = "checked"
  /\ UNCHANGED <<lintVars, includeBuild, gateExit, discVars>>

\* main of the gate after runAllChecks: process.exit(results.passed ? 0 : 1).
\* (GateExitCodeZero: the exit code of a process that never calls exit(1).)
GateExitCodeZero(r) == 0
GateExitCode(r) == IF r.passed THEN 0 ELSE 1

GateMain ==
  /\ gpc = "scored"
  /\ gateExit' = <<GateExitCode(results)>>
  /\ gpc' = "exited"
  /\ UNCHANGED <<lintVars, results, includeBuild, gateLog, discVars>>

(***************************************************************************)
(* Specifications.                                                         *)
(***************************************************************************)
\* A report an earlier run can have left: that of a run whose only invocation
\* failed.
EarlierReports ==
  { [state |-> "json", qualityScore |-> Num(9000), errors |-> 1, warnings |-> 0] }

InitLint(files) ==
  /\ pc = "idle"
  /\ packages = <<>> /\ heavy = <<>> /\ medium = <<>> /\ light = <<>>
  /\ i = 1
  /\ metrics = NewMetrics(NoFile)
  /\ reportFile \in files
  /\ invocations = <<>> /\ inserted = <<>>
  /\ finalizeCalls = 0 /\ written = FALSE
  /\ exitCode = <<>>
  /\ prevRun = [ran |-> FALSE, persisted |-> FALSE, qualityScore |-> Num(0)]

InitGateRest ==
  /\ gateExit = <<>>
  /\ gateLog = NewGateLog

InitGate ==
  /\ results = NewResults
  /\ gpc = "off"
  /\ includeBuild = FALSE
  /\ InitGateRest

InitDisc ==
  /\ cacheFile = NoCache
  /\ workspace = NoWorkspace
  /\ dpc = "off"
  /\ found = <<>>
  /\ discLog = NewDiscLog

\* One run of the lint process over a workspace of up to MaxPkgs packages.
Init == InitLint({NoFile} \cup EarlierReports) /\ InitGate /\ InitDisc

Run == LintHeavy \/ LintMedium \/ LintLight \/ finalize \/ MainExit \/ MainCatch

Next ==
  \/ \E pkgs \in PackageLists(MaxPkgs) : StartRun(pkgs)
  \/ Run

Spec == Init /\ [][Next]_vars

\* Consecutive, non-overlapping runs of the lint process, from a report store
\* that is empty or holds an unreadable file, over workspaces of up to MaxTrendPkgs packages.
InitRuns == InitLint({NoFile, CorruptFile}) /\ InitGate /\ InitDisc

NextRuns ==
  \/ \E pkgs \in PackageLists(MaxTrendPkgs) : StartRun(pkgs)
  \/ Run
  \/ Relaunch

SpecRuns == InitRuns /\ [][NextRuns]_vars

\* calculateScore applied to check lists of up to MaxChecks checks.
CheckLists ==
  UNION { { [k \in 1..n |-> [name |-> "Check", passed |-> (k <= p)]],
            [k \in 1..n |-> [name |-> "Check", passed |-> (k > n - p)]] }
          : <<n, p>> \in { np \in (1..MaxChecks) \X (0..MaxChecks) : np[2] <= np[1] } }

InitGateScore ==
  /\ InitLint({NoFile})
  /\ results \in { [NewResults EXCEPT !.checks = c] : c \in CheckLists }
  /\ gpc = "checked"
  /\ includeBuild = FALSE
  /\ InitGateRest
  /\ InitDisc

NextGateScore == CalculateScore

SpecGateScore == InitGateScore /\ [][NextGateScore]_vars

\* Runs over workspaces with a heavy package and up to three medium and three
\* light packages.
BatchCatalog ==
  << [name |-> "@n8n/nodes-base-core", path |-> "packages/@n8n/nodes-base-core",
      size |-> 500001, hasTypescript |-> TRUE, hasTests |-> FALSE],
     [name |-> "n8n-workflow", path |-> "packages/workflow",
      size |-> 1000000, hasTypescript |-> TRUE, hasTests |-> TRUE],
     [name |-> "@n8n/api-types", path |-> "packages/@n8n/api-types",
      size |-> 600000, hasTypescript |-> TRUE, hasTests |-> FALSE],
     [name |-> "@n8n/config", path |-> "packages/@n8n/config",
      size |-> 500000, hasTypescript |-> TRUE, hasTests |-> TRUE],
     [name |-> "@n8n/utils", path |-> "packages/@n8n/utils",
      size |-> 1200, hasTypescript |-> TRUE, hasTests |-> FALSE],
     [name |-> "@n8n/constants", path |-> "packages/@n8n/constants",
      size |-> 900, hasTypescript |-> FALSE, hasTests |-> FALSE],
     [name |-> "@n8n/storybook", path |-> "packages/frontend/storybook",
      size |-> 30000, hasTypescript |-> FALSE, hasTests |-> TRUE] >>
RECURSIVE SubLists(_)
SubLists(list) ==
  IF list = <<>> THEN {<<>>}
  ELSE LET rest == SubLists(Tail(list))
       IN rest \cup { <<Head(list)>> \o r : r \in rest }
BatchLists == SubLists(BatchCatalog)

NextBatch ==
  \/ \E pkgs \in BatchLists : StartRun(pkgs)
  \/ Run

SpecBatch == Init /\ [][NextBatch]_vars

\* The report of a lint run that linted n packages and counted e errors and w
\* warnings.
ReportOf(n, e, w) ==
  LET m == [NewMetrics(NoFile) EXCEPT !.totalPackages = n, !.lintedPackages = n,
                                      !.errors = e, !.warnings = w]
  IN JSONReport([m EXCEPT !.qualityScore = calculateQualityScore(m)])

\* The report stores a gate run can start from.
GateReports ==
  { NoFile, CorruptFile, ReportOf(10, 0, 10), ReportOf(10, 0, 11), ReportOf(1, 1, 1),
    ReportOf(1, 0, 3), ReportOf(0, 0, 0) }

\* One run of the gate; with no report file it runs the lint process over a
\* workspace of up to MaxTrendPkgs packages.
InitGateRun ==
  /\ InitLint(GateReports)
  /\ results = NewResults
  /\ gpc = "lint"
  /\ includeBuild \in BOOLEAN
  /\ InitGateRest
  /\ InitDisc

LintChild ==
  /\ gpc = "lintChild"
  /\ \/ \E pkgs \in PackageLists(MaxTrendPkgs) : StartRun(pkgs)
     \/ Run

NextGate ==
  \/ checkLintQualityLaunch \/ LintChild \/ checkLintQualityChildExit
  \/ checkLintQualityRead
  \/ checkTypeScript \/ checkSecurity \/ checkFormatting
  \/ checkTodoComments \/ checkDependencies \/ checkBuild
  \/ CalculateScore \/ GateMain

SpecGate == InitGateRun /\ [][NextGate]_vars

\* The workspaces getLintablePackages is run on.
Pkg(at, lastModified, isPrivate) ==
  Discovered(CHOOSE pkg \in Catalog : pkg.path = at, lastModified, isPrivate)
\* Packages under a node_modules and under a dist directory of the tree.
VendoredPackage ==
  [name |-> "eslint-plugin-local", path |-> "packages/frontend/node_modules/eslint-plugin-local",
   lastModified |-> 1700000005, hasTypescript |-> FALSE, hasTests |-> FALSE,
   isPrivate |-> FALSE, size |-> 4000]
BuiltPackage ==
  [name |-> "n8n-editor-build", path |-> "packages/frontend/dist/editor",
   lastModified |-> 1700000006, hasTypescript |-> FALSE, hasTests |-> FALSE,
   isPrivate |-> TRUE, size |-> 90000]

\* path.join(dir, entry.name): the path has a directory of that name on it.
PathIncludes(at, segment) ==
  CASE at = VendoredPackage.path -> segment \in {"packages", "frontend", "node_modules"}
    [] at = BuiltPackage.path -> segment \in {"packages", "frontend", "dist"}
    [] OTHER -> segment = "packages"

Workspaces ==
  { NoWorkspace,
    PlainDir(TRUE, << PackageDir("lint", Pkg("packages/core", 1700000001, FALSE)),
                      PlainDir(TRUE, << PlainDir(TRUE, << PackageDir("lint", VendoredPackage) >>),
                                        PlainDir(TRUE, << PackageDir("lint", BuiltPackage) >>),
                                        PackageDir("lint", Pkg("packages/frontend/design-system", 1700000002, FALSE)) >>) >>),
    PlainDir(TRUE, <<>>),
    PlainDir(TRUE, << PackageDir("lint", Pkg("packages/cli", 1700000000, TRUE)),
                      PackageDir("lint", Pkg("packages/core", 1700000001, FALSE)),
                      PackageDir("nolint", NoPackage) >>),
    PlainDir(TRUE, << PlainDir(TRUE, << PackageDir("lint", Pkg("packages/frontend/design-system", 1700000002, FALSE)),
                                        PackageDir("lint", Pkg("packages/@n8n/utils", 1700000003, FALSE)) >>),
                      PackageDir("corrupt", NoPackage),
                      PackageDir("lint", Pkg("packages/workflow", 1700000004, FALSE)) >>),
    PlainDir(TRUE, << PackageDir("lint", Pkg("packages/cli", 1700000000, TRUE)),
                      PlainDir(FALSE, <<>>) >>) }

\* The package lists an earlier run can have left in the cache.
CachedLists ==
  { <<>>, << Pkg("packages/nodes-base", 1600000000, FALSE),
             Pkg("packages/core", 1700000001, FALSE) >> }
Caches ==
  {NoCache}
  \cup { CorruptCache(CacheAges[k]) : k \in {1, 4} }
  \cup { JSONCache(CacheAges[k], pkgs) : k \in DOMAIN CacheAges, pkgs \in CachedLists }

InitDiscovery ==
  /\ InitLint({NoFile})
  /\ InitGate
  /\ cacheFile \in Caches
  /\ workspace \in Workspaces
  /\ dpc = "main"
  /\ found = <<>>
  /\ discLog = NewDiscLog

NextDiscovery == getLintablePackages \/ Tick \/ DiscoveryFailed

SpecDiscovery == InitDiscovery /\ [][NextDiscovery]_vars

(***************************************************************************)
(* Properties.                                                             *)
(***************************************************************************)
Range(f) == { f[k] : k \in DOMAIN f }
Names(pkgs) == { pkgs[k].name : k \in DOMAIN pkgs }
Paths(pkgs) == [k \in 1..Len(pkgs) |-> pkgs[k].path]
PackageAt(path) == CHOOSE c \in Catalog : c.path = path
DistinctNames(pkgs) == \A a, b \in DOMAIN pkgs : a # b => pkgs[a].name # pkgs[b].name
NonIncreasingSize(pkgs) == \A a, b \in DOMAIN pkgs : a < b => pkgs[a].size >= pkgs[b].size

\* Every tier block of the run is behind it.
TiersDone == pc \in {"finalizeEmpty", "finalize", "catch", "returned", "rejected", "exited"}
\* The invocations that covered the package at a path, the insertions made for it.
Covering(path) == { k \in DOMAIN invocations : path \in Range(invocations[k].paths) }
InsertionsOf(path) == { k \in DOMAIN inserted : inserted[k].path = path }
TierRank(tier) == IF tier = "heavy" THEN 1 ELSE IF tier = "medium" THEN 2 ELSE 3
Failed == [errors |-> 1, warnings |-> 0, status |-> "failed"]

\* C1: when the tiers of a run over packages with pairwise distinct names are
\* done, packageResults has exactly one entry per package, every package was
\* covered by exactly one tool invocation (alone if heavy, with its whole tier
\* otherwise) and got exactly one result, and lintedPackages = totalPackages.
C1_OneResultPerPackage ==
  (TiersDone /\ DistinctNames(packages)) =>
    /\ DOMAIN metrics.packageResults = Names(packages)
    /\ metrics.totalPackages = Len(packages)
    /\ metrics.lintedPackages = metrics.totalPackages
    /\ Len(inserted) = Len(packages)
    /\ \A k \in DOMAIN packages :
         LET pkg == packages[k]
         IN /\ Cardinality(Covering(pkg.path)) = 1
            /\ Cardinality(InsertionsOf(pkg.path)) = 1
            /\ \A c \in Covering(pkg.path) :
                 /\ invocations[c].tier = Tier(pkg)
                 /\ invocations[c].paths =
                      IF Tier(pkg) = "heavy" THEN <<pkg.path>>
                      ELSE IF Tier(pkg) = "medium" THEN Paths(medium) ELSE Paths(light)
            /\ \A x \in InsertionsOf(pkg.path) :
                 metrics.packageResults[pkg.name] = inserted[x].result

C1_Witness ==
  /\ pc = "exited"
  /\ DistinctNames(packages)
  /\ Len(heavy) = 1 /\ Len(medium) = 1 /\ Len(light) = 1
  /\ invocations[2].threw
  /\ ~invocations[3].threw

\* C2: a heavy package whose invocation throws (timeout or non-zero exit) is
\* recorded as failed with 1 error and 0 warnings; the run goes on with the
\* next heavy package and the batches, so once the tiers are done every
\* package has been invoked and has a result; the catch block is entered only
\* from a finalize() whose write threw, and a run that has returned has
\* written its report.
C2_HeavyFailureNotFatal ==
  /\ \A k \in DOMAIN invocations :
       (invocations[k].tier = "heavy" /\ invocations[k].threw) =>
         LET ins == inserted[invocations[k].at + 1]
         IN /\ ins.path = invocations[k].paths[1]
            /\ ins.result = Failed
            /\ (\A x \in DOMAIN inserted : x # invocations[k].at + 1 => inserted[x].name # ins.name)
                 => metrics.packageResults[ins.name] = Failed
  /\ TiersDone =>
       \A k \in DOMAIN packages :
         Covering(packages[k].path) # {} /\ InsertionsOf(packages[k].path) # {}
  /\ pc \in {"catch", "rejected"} => finalizeCalls >= 1
  /\ pc = "returned" => (written /\ reportFile = JSONReport(metrics))
  /\ pc = "exited" => (finalizeCalls >= 1 /\ (written \/ exitCode = <<1>>))

C2_Witness ==
  /\ pc = "exited"
  /\ written
  /\ Len(heavy) = 2 /\ Len(medium) = 1
  /\ invocations[1].threw
  /\ ~invocations[2].threw
  /\ ~invocations[3].threw

\* C3: when a medium or light batch invocation throws, the invocation covered
\* the whole tier, every member, in order, gets the result failed with 1 error
\* and 0 warnings, no result of a member is anything else, and a package of
\* another tier has the result failed only through an invocation of its own.
C3_BatchFailureMarksMembers ==
  \A k \in DOMAIN invocations :
    (invocations[k].tier \in {"medium", "light"} /\ invocations[k].threw) =>
      LET inv == invocations[k]
          members == IF inv.tier = "medium" THEN medium ELSE light
      IN /\ inv.paths = Paths(members)
         /\ \A j \in 1..Len(members) :
              /\ inserted[inv.at + j].path = members[j].path
              /\ inserted[inv.at + j].name = members[j].name
              /\ inserted[inv.at + j].result = Failed
         /\ \A x \in DOMAIN inserted :
              inserted[x].path \in Range(inv.paths) => inserted[x].result = Failed
         /\ \A x \in DOMAIN inserted :
              (inserted[x].result.status = "failed" /\ inserted[x].path \notin Range(inv.paths)) =>
                \E c \in Covering(inserted[x].path) : c # k /\ invocations[c].threw

C3_Witness ==
  /\ Len(invocations) = 2
  /\ invocations[1].tier = "heavy" /\ ~invocations[1].threw
  /\ invocations[2].tier = "medium" /\ invocations[2].threw
  /\ Len(medium) = 2
  /\ metrics.lintedPackages = 3

\* C4: the medium batch is invoked only when every heavy package has a result,
\* the light batch only when every heavy and every medium package has one, and
\* both the invocations and the recorded results follow the order heavy,
\* medium, light.
C4_TierOrder ==
  /\ \A k \in DOMAIN invocations :
       LET inv == invocations[k]
           earlier == { inserted[x].path : x \in 1..inv.at }
       IN /\ inv.tier \in {"medium", "light"} => Range(Paths(heavy)) \subseteq earlier
          /\ inv.tier = "light" => Range(Paths(medium)) \subseteq earlier
  /\ \A j, k \in DOMAIN invocations :
       j < k => TierRank(invocations[j].tier) <= TierRank(invocations[k].tier)
  /\ \A x, y \in DOMAIN inserted :
       x < y => TierRank(Tier(PackageAt(inserted[x].path)))
                  <= TierRank(Tier(PackageAt(inserted[y].path)))

C4_Witness ==
  /\ Len(invocations) = 3
  /\ invocations[1].tier = "heavy" /\ invocations[1].threw
  /\ invocations[2].tier = "medium" /\ invocations[2].threw
  /\ invocations[3].tier = "light" /\ ~invocations[3].threw

\* C5: every tier list of categorizePackages is in non-increasing size order;
\* the k-th invocation of the heavy loop is of heavy[k] alone and starts when
\* exactly the k - 1 earlier heavy packages have their results.
C5_HeavySequentialLargestFirst ==
  /\ NonIncreasingSize(heavy) /\ NonIncreasingSize(medium) /\ NonIncreasingSize(light)
  /\ NonIncreasingSize(packages)
  /\ \A k \in DOMAIN invocations :
       invocations[k].tier = "heavy" =>
         /\ k <= Len(heavy)
         /\ invocations[k].paths = <<heavy[k].path>>
         /\ invocations[k].at = k - 1
         /\ \A j \in 1..(k - 1) : inserted[j].path = heavy[j].path
  /\ \A j, k \in DOMAIN invocations :
       (j < k /\ invocations[k].tier = "heavy") =>
         PackageAt(invocations[j].paths[1]).size >= PackageAt(invocations[k].paths[1]).size

C5_Witness ==
  /\ Len(heavy) = 3
  /\ Len(invocations) = 3
  /\ heavy[1].size = heavy[2].size
  /\ heavy[2].size > heavy[3].size
  /\ invocations[2].threw

\* C6: after finalize() the quality score is a number from 0 to 100, and so is
\* the score in a written report.
C6_ScoreInRange ==
  /\ finalizeCalls >= 1 =>
       (metrics.qualityScore.t = "number" /\ metrics.qualityScore.v \in 0..10000)
  /\ written =>
       (reportFile.qualityScore.t = "number" /\ reportFile.qualityScore.v \in 0..10000)

\* C7: after finalize() of a run with lintedPackages >= 1 the score is
\* 100 - (errors + warnings) / (10 * lintedPackages) * 100, clamped to 0..100
\* and rounded to the nearest hundredth (ties up): 100 without issues, 0 from
\* 10 issues per package on.
C7_ScoreFormula ==
  (finalizeCalls >= 1 /\ metrics.lintedPackages >= 1) =>
    LET n == metrics.lintedPackages
        issues == metrics.errors + metrics.warnings
        exact == 10000 * n - 1000 * issues   \* n times the unclamped score in hundredths
        clamped == IF exact < 0 THEN 0 ELSE IF exact > 10000 * n THEN 10000 * n ELSE exact
        h == metrics.qualityScore.v
    IN /\ metrics.qualityScore.t = "number"
       /\ h \in 0..10000
       /\ 2 * h * n <= 2 * clamped + n
       /\ 2 * clamped + n < 2 * h * n + 2 * n
       /\ issues = 0 => h = 10000
       /\ issues >= 10 * n => h = 0

C7_Witness ==
  /\ finalizeCalls >= 1
  /\ metrics.lintedPackages = 3
  /\ metrics.errors + metrics.warnings = 1
  /\ metrics.qualityScore = Num(9667)

\* C8: the first run on an empty or unreadable report store has previousScore
\* 0, and a run that follows a run which wrote its report has that run's
\* quality score as previousScore.
C8_PreviousScoreIsLastScore ==
  pc # "idle" =>
    /\ ~prevRun.ran => metrics.previousScore = Num(0)
    /\ (prevRun.ran /\ prevRun.persisted) => metrics.previousScore = prevRun.qualityScore

\* C9: finalize() is called exactly once in a run: never twice, and once when
\* runQualityLint has returned or thrown.
C9_FinalizeExactlyOnce ==
  /\ finalizeCalls <= 1
  /\ pc \in {"returned", "rejected", "exited"} => finalizeCalls = 1

\* C10: after calculateScore the score is passedChecks / totalChecks * 100
\* rounded to the nearest integer (ties up), and passed holds exactly when the
\* score is at least 85: a score of 85 passes, a score of 84 fails.
C10_GateScoreAndVerdict ==
  gpc = "scored" =>
    LET passedChecks == Cardinality({ k \in DOMAIN results.checks : results.checks[k].passed })
        totalChecks == Len(results.checks)
        s == results.score.v
    IN /\ results.score.t = "number"
       /\ 2 * s * totalChecks <= 200 * passedChecks + totalChecks
       /\ 200 * passedChecks + totalChecks < 2 * s * totalChecks + 2 * totalChecks
       /\ results.passed = (s >= 85)
       /\ s = 85 => results.passed
       /\ s = 84 => ~results.passed

C10_Witness ==
  /\ gpc = "scored"
  /\ results.score = Num(85)
  /\ results.passed
  /\ Len(results.checks) = 13

(***************************************************************************)
(* The gate run.                                                           *)
(***************************************************************************)
ChecksNamed(name) == { k \in DOMAIN results.checks : results.checks[k].name = name }
CheckNames == [k \in 1..Len(results.checks) |-> results.checks[k].name]
IsPrefix(s, t) == Len(s) <= Len(t) /\ SubSeq(t, 1, Len(s)) = s
GateDone == gpc \in {"checked", "scored", "exited"}
IsFailedCheck(c) == ~c.passed
FailedChecks == SelectSeq(results.checks, IsFailedCheck)

\* C11: in every state of a gate run the recommendations are exactly the
\* failed checks, one recommendation per failed check and in the order of
\* those checks in the checks list; a passed check has none.
C11_RecommendationPerFailedCheck ==
  /\ Len(results.recommendations) = Len(FailedChecks)
  /\ \A k \in DOMAIN FailedChecks :
       /\ results.recommendations[k].fix = FailedChecks[k].name
       /\ results.recommendations[k].message = FailedChecks[k].message

C11_Witness ==
  /\ GateDone
  /\ Len(results.recommendations) >= 2
  /\ \E a, b, c \in DOMAIN results.checks :
       /\ a < b /\ b < c
       /\ ~results.checks[a].passed /\ results.checks[b].passed /\ ~results.checks[c].passed

\* C12: every checker whose underlying operation threw has appended a check
\* with passed = FALSE.  (It fails for checkTodoComments, whose catch block
\* appends a passed check.)
C12_ThrowRecordsFailedCheck ==
  \A k \in DOMAIN gateLog.threw :
    /\ ChecksNamed(gateLog.threw[k]) # {}
    /\ \A j \in ChecksNamed(gateLog.threw[k]) : ~results.checks[j].passed

\* The names of the checks of a complete run: the lint part is the one check
\* of the catch block or the three checks on the report.
OtherCheckers == <<"TypeScript", "Security Scan", "Formatting", "TODO Comments", "Dependencies">>
ExpectedNames ==
  { lintPart \o OtherCheckers \o (IF includeBuild THEN <<"Build">> ELSE <<>>) :
      lintPart \in { <<"Lint Quality">>,
                     <<"Lint Quality Score", "Error Count", "Warning Count">> } }

C13_OrderOfChecks ==
  \E e \in ExpectedNames :
    /\ IsPrefix(CheckNames, e)
    /\ GateDone => CheckNames = e

\* C13: the checkers run in the order lint quality, type-check, security
\* scan, formatting, comment-debt, dependency audit, each whatever the earlier
\* results; the checks list only grows by appending and a recorded check is
\* never changed; the Build check is there, last, exactly when
\* --include-build was given, and is not counted otherwise.
C13_FixedOrderAppendOnly ==
  /\ []C13_OrderOfChecks
  /\ [][IsPrefix(results.checks, results.checks')]_vars

C13_Witness ==
  /\ gpc = "exited"
  /\ includeBuild
  /\ ~results.checks[1].passed
  /\ results.checks[Len(results.checks)].name = "Build"
  /\ Len(results.checks) = 9

\* C14: the gate exits with code 0 exactly when the final result has
\* passed = TRUE, and with code 1 when it has passed = FALSE.
C14_ExitCodeFromVerdict ==
  gateExit # <<>> =>
    /\ gateExit = <<0>> <=> results.passed
    /\ ~results.passed => gateExit = <<1>>

C14_Witness ==
  /\ gateExit = <<1>>
  /\ ~results.passed
  /\ ~IsPassed(results.checks[Len(results.checks)])

\* C15: when checkLintQuality could read the report it has appended exactly
\* three checks, in this order: the score check, passed iff the score of the
\* report is at least 80; the error check, passed iff the report has at most
\* 0 errors; the warning check, passed iff it has at most 10 warnings.
C15_ThreeLintChecks ==
  gateLog.read # <<>> =>
    LET report == gateLog.read[1]
        c == results.checks
    IN /\ Len(gateLog.read) = 1
       /\ Len(c) >= 3
       /\ c[1].name = "Lint Quality Score"
       /\ c[2].name = "Error Count"
       /\ c[3].name = "Warning Count"
       /\ c[1].passed <=> (report.qualityScore.t = "number" /\ report.qualityScore.v >= 8000)
       /\ c[2].passed <=> report.errors <= 0
       /\ c[3].passed <=> report.warnings <= 10
       /\ \A k \in DOMAIN c :
            k > 3 => c[k].name \notin {"Lint Quality", "Lint Quality Score",
                                       "Error Count", "Warning Count"}

C15_Witness ==
  /\ Len(gateLog.read) = 1
  /\ gateLog.read[1].qualityScore = Num(8000)
  /\ Len(results.checks) >= 3
  /\ results.checks[1].passed
  /\ ~results.checks[2].passed
  /\ results.checks[3].passed

\* The (file, pattern) pairs of the scan: a readable file of the listing whose
\* content matches the pattern.
MatchesOf(files) ==
  { m \in (DOMAIN files) \X SecurityPatterns :
      files[m[1]].readable /\ m[2] \in files[m[1]].matches }
ScannedMatches == IF gateLog.scanned = <<>> THEN {} ELSE MatchesOf(gateLog.scanned[1])
SecurityDone == gpc \notin {"off", "lint", "lintChild", "typescript", "security"}
SecurityFixes ==
  { k \in DOMAIN results.recommendations : results.recommendations[k].fix = "Security Scan" }

\* C16 as stated: once the security checker has run there is exactly one
\* 'Security Scan' check, passed iff no scanned file matches a pattern, with
\* exactly one recommendation naming it when there are matches.  (It fails
\* when the listing of the files throws: nothing has matched and the check is
\* a failed one.)
C16_PassedIffNoMatch ==
  SecurityDone =>
    /\ Cardinality(ChecksNamed("Security Scan")) = 1
    /\ \A j \in ChecksNamed("Security Scan") :
         results.checks[j].passed <=> ScannedMatches = {}
    /\ ScannedMatches # {} => Cardinality(SecurityFixes) = 1

\* C16: there is no 'Security Scan' check before the security checker has run
\* and exactly one after it; it has passed = TRUE iff the listing of the files
\* succeeded and no scanned file matches a pattern; a failed one has exactly
\* one recommendation naming it, whatever the number of matches.
C16_OneSecurityCheck ==
  /\ ~SecurityDone => ChecksNamed("Security Scan") = {}
  /\ SecurityDone =>
       /\ Cardinality(ChecksNamed("Security Scan")) = 1
       /\ \A j \in ChecksNamed("Security Scan") :
            results.checks[j].passed <=> (gateLog.scanned # <<>> /\ ScannedMatches = {})
       /\ Cardinality(SecurityFixes) = IF ScannedMatches # {} \/ gateLog.scanned = <<>> THEN 1 ELSE 0

C16_Witness ==
  /\ SecurityDone
  /\ Cardinality(ScannedMatches) >= 3
  /\ Cardinality(SecurityFixes) = 1

(***************************************************************************)
(* The tiers.                                                              *)
(***************************************************************************)
Occurrences(pkg, list) == Cardinality({ k \in DOMAIN list : list[k] = pkg })

\* C17: after categorizePackages every package of the input is in exactly one
\* of heavy, medium and light, and nothing else is in them; a package is in
\* heavy iff its weight is at least 4, in medium iff it is 2 or 3, in light
\* iff it is below 2.
C17_TiersPartition ==
  pc # "idle" =>
    /\ Len(heavy) + Len(medium) + Len(light) = Len(packages)
    /\ \A k \in DOMAIN packages :
         LET pkg == packages[k]
             weight == totalWeight(pkg)
         IN /\ Occurrences(pkg, heavy) + Occurrences(pkg, medium) + Occurrences(pkg, light) = 1
            /\ Occurrences(pkg, heavy) = 1 <=> weight >= 4
            /\ Occurrences(pkg, medium) = 1 <=> (2 <= weight /\ weight < 4)
            /\ Occurrences(pkg, light) = 1 <=> weight < 2

C17_Witness ==
  /\ pc # "idle"
  /\ \E k \in DOMAIN heavy : totalWeight(heavy[k]) = 4
  /\ \E k \in DOMAIN medium : totalWeight(medium[k]) = 3
  /\ \E k \in DOMAIN light : totalWeight(light[k]) = 1

(***************************************************************************)
(* The cache of getLintablePackages.                                       *)
(***************************************************************************)
\* The call that has just been added to the history.
Called == Len(discLog') = Len(discLog) + 1
FreshCache(cache) == cache.state = "json" /\ cache.age < 3600000

\* A call on a cache that is there, younger than one hour and parses returns
\* the packages the cache was written from, scans nothing and leaves the file
\* as it is.
C18_ReadsFreshCache ==
  (Called /\ FreshCache(cacheFile)) =>
    /\ dpc' = "returned"
    /\ Stringify(found') = cacheFile.content
    /\ cacheFile' = cacheFile
    /\ ~discLog'[Len(discLog')].scanned
    /\ discLog'[Len(discLog')].returned = found'

\* A call that scanned and wrote the cache, followed by a call with no time
\* passed, returns the same packages from both and the second does not scan.
C18_SecondCallSame ==
  \A k \in DOMAIN discLog :
    (k + 1 \in DOMAIN discLog /\ discLog[k].scanned /\ discLog[k].write = "ok"
       /\ discLog[k + 1].before.age = 0) =>
      /\ discLog[k + 1].returned = discLog[k].returned
      /\ ~discLog[k + 1].scanned
      /\ ~discLog[k + 1].threw

\* C18: with a cache younger than the TTL that deserializes,
\* getLintablePackages returns exactly the cached packages without a scan and
\* without rewriting the cache; so a scan followed at once by a second call
\* gives the same packages with no second scan.
C18_CacheHit ==
  /\ [][C18_ReadsFreshCache]_vars
  /\ []C18_SecondCallSame

C18_Witness ==
  /\ Len(discLog) = 2
  /\ discLog[1].scanned /\ discLog[1].write = "ok"
  /\ Len(discLog[1].returned) >= 2
  /\ \E k \in DOMAIN discLog[1].returned : discLog[1].returned[k].isPrivate
  /\ discLog[2].before.age = 0
  /\ ~discLog[2].scanned
  /\ found = discLog[1].returned

\* C19: a call that finds the cache missing, at least one hour old or not
\* deserializable scans the workspace, returns what the scan found and has
\* overwritten the cache with it.  (It fails when the cache write throws or a
\* directory of the workspace cannot be read: the call throws.)
C19_FreshScanOnMiss ==
  \A k \in DOMAIN discLog :
    ~FreshCache(discLog[k].before) =>
      /\ discLog[k].scanned
      /\ ~discLog[k].threw
      /\ discLog[k].returned = scanDirectory(workspace).packages
      /\ discLog[k].write = "ok"
      /\ (k = Len(discLog) /\ cacheFile.age = 0) =>
           cacheFile.content = Stringify(discLog[k].returned)

\* C20: a call whose cache write failed still returns the packages of its
\* scan, and discovery goes on.  (It fails: the write is not in a try block,
\* so the call throws and the process exits with code 1.)
C20_WriteFailureNotFatal ==
  \A k \in DOMAIN discLog :
    discLog[k].write \in {"refused", "truncated"} =>
      /\ ~discLog[k].threw
      /\ discLog[k].returned = scanDirectory(workspace).packages
      /\ (k = Len(discLog) => dpc = "returned")

(***************************************************************************)
(* The scan of getLintablePackages.                                        *)
(***************************************************************************)
ExcludedDirs == {"node_modules", "dist"}
InExcludedDir(pkg) == \E segment \in ExcludedDirs : PathIncludes(pkg.path, segment)

\* The lint-capable packages of a tree, a directory that cannot be read or
\* whose manifest cannot be parsed giving none.
RECURSIVE LintCapable(_)
LintCapable(dir) ==
  IF ~dir.exists \/ ~dir.readable THEN {}
  ELSE UNION { IF dir.entries[k].manifest = "lint" THEN {dir.entries[k].pkg}
               ELSE IF dir.entries[k].manifest = "none" THEN LintCapable(dir.entries[k])
               ELSE {} : k \in DOMAIN dir.entries }

\* C21: a fresh scan skips a directory whose manifest cannot be parsed and a
\* directory that cannot be read: the scan does not throw, every lint-capable
\* package of the other directories is returned and the skipped one gives no
\* package.  (It fails for a directory that cannot be read: its readdirSync
\* throws and nothing catches it.)
C21_ScanSkipsBadDirectories ==
  \A k \in DOMAIN discLog :
    discLog[k].scanned =>
      /\ ~(discLog[k].threw /\ discLog[k].write = "none")
      /\ discLog[k].write = "ok" =>
           /\ { pkg \in LintCapable(workspace) : ~InExcludedDir(pkg) }
                \subseteq Range(discLog[k].returned)
           /\ NoPackage \notin Range(discLog[k].returned)

\* C22: no package a fresh scan returns lies inside a node_modules or dist
\* directory, and the lint-capable packages of the other subdirectories are
\* returned.  (It fails: scanDirectory recurses into every directory without
\* a package.json, whatever its name.)
C22_NoVendorOrBuildPackages ==
  \A k \in DOMAIN discLog :
    (discLog[k].scanned /\ discLog[k].write = "ok") =>
      /\ \A j \in DOMAIN discLog[k].returned : ~InExcludedDir(discLog[k].returned[j])
      /\ { pkg \in LintCapable(workspace) : ~InExcludedDir(pkg) }
           \subseteq Range(discLog[k].returned)

(***************************************************************************)
(* The batches and the totals of a run.                                    *)
(***************************************************************************)
\* r is Math.round(num / den).
IsRounded(r, num, den) == 2 * den * r <= 2 * num + den /\ 2 * num + den < 2 * den * (r + 1)

\* C23: when a medium or light batch invocation succeeds with parsed totals
\* of E errors and W warnings over n members, every member is recorded with
\* status success, round(E / n) errors and round(W / n) warnings.
C23_BatchSuccessSplitsEvenly ==
  \A k \in DOMAIN invocations :
    (invocations[k].tier \in {"medium", "light"} /\ ~invocations[k].threw) =>
      LET inv == invocations[k]
          members == IF inv.tier = "medium" THEN medium ELSE light
          n == Len(members)
      IN /\ n > 0
         /\ inv.paths = Paths(members)
         /\ \A j \in 1..n :
              LET result == inserted[inv.at + j].result
              IN /\ inserted[inv.at + j].path = members[j].path
                 /\ result.status = "success"
                 /\ IsRounded(result.errors, inv.parsed.errors, n)
                 /\ IsRounded(result.warnings, inv.parsed.warnings, n)
                 /\ result = inserted[inv.at + 1].result

C23_Witness ==
  /\ Len(medium) = 3 /\ Len(light) = 2
  /\ Len(invocations) = 2
  /\ ~invocations[1].threw /\ invocations[1].parsed.errors = 6
  /\ \A j \in 1..3 : inserted[j].result.errors = 2
  /\ ~invocations[2].threw /\ invocations[2].parsed.errors = 7
  /\ \A j \in 4..5 : inserted[j].result.errors = 4 /\ inserted[j].result.warnings = 2

\* A writeFileSync of finalize() has thrown in this run.
FinalizeFailed == finalizeCalls > (IF written THEN 1 ELSE 0)
ToolFailuresNotFatal ==
  /\ TiersDone => Len(inserted) = Len(packages)
  /\ pc = "rejected" => FinalizeFailed
  /\ (pc = "exited" /\ ~FinalizeFailed) =>
       (exitCode = <<1>> <=> (metrics.qualityScore.t = "number" /\ metrics.qualityScore.v < 7000))

\* C24: when the write of the report in finalize() has failed, runQualityLint
\* does not return normally and the process exits with a non-zero code; a tool
\* invocation that fails or times out never stops the run before finalize()
\* and never makes main() reject.  (It fails: the catch block of
\* runQualityLint calls finalize() again, and when that write succeeds the run
\* returns and exits by its score.)
C24_ReportFailureIsFatal ==
  /\ FinalizeFailed =>
       /\ pc # "returned"
       /\ pc = "exited" => exitCode = <<1>>
  /\ ToolFailuresNotFatal

(***************************************************************************)
(* The weight of a package.                                                *)
(***************************************************************************)
IsCriticalName(name) ==
  NameIncludes(name, "nodes-base") \/ name = "n8n" \/ NameIncludes(name, "editor-ui")
IsImportantName(name) ==
  NameIncludes(name, "core") \/ NameIncludes(name, "cli") \/ NameIncludes(name, "design-system")

WeightAsSpecified(pkg) ==
  \E s \in 0..2, c \in 0..2, p \in 0..2 :
    /\ totalWeight(pkg) = s + c + p
    /\ s = 2 <=> pkg.size > 1000000
    /\ s = 1 <=> (500000 < pkg.size /\ pkg.size <= 1000000)
    /\ c = Cardinality({ flag \in {"typescript", "tests"} :
                           \/ flag = "typescript" /\ pkg.hasTypescript
                           \/ flag = "tests" /\ pkg.hasTests })
    /\ p = 2 <=> IsCriticalName(pkg.name)
    /\ p = 1 <=> (~IsCriticalName(pkg.name) /\ IsImportantName(pkg.name))
    /\ totalWeight(pkg) \in 0..6

\* C25: the weight of every package of a run is sizeWeight + complexityWeight
\* + priorityWeight: 2 for a size above 1,000,000, 1 for a size above 500,000
\* up to 1,000,000, else 0; 1 for type-checking and 1 for tests; 2 for a
\* critical name, else 1 for an important name, else 0; it is an integer
\* from 0 to 6.
C25_WeightFormula ==
  \A k \in DOMAIN packages : WeightAsSpecified(packages[k])

C25_Witness ==
  /\ \E k \in DOMAIN packages :
       /\ IsCriticalName(packages[k].name) /\ IsImportantName(packages[k].name)
       /\ totalWeight(packages[k]) = 4
  /\ \E k \in DOMAIN packages : packages[k].size = 1000000 /\ totalWeight(packages[k]) = 3
  /\ \E k \in DOMAIN packages : packages[k].size = 500000 /\ totalWeight(packages[k]) = 2
  /\ \E k \in DOMAIN packages : totalWeight(packages[k]) = 0

(***************************************************************************)
(* The running totals.                                                     *)
(***************************************************************************)
RECURSIVE SumInserted(_, _)
SumInserted(list, field) ==
  IF list = <<>> THEN 0
  ELSE (IF field = "errors" THEN Head(list).result.errors ELSE Head(list).result.warnings)
       + SumInserted(Tail(list), field)

RECURSIVE SumResults(_, _, _)
SumResults(map, names, field) ==
  IF names = {} THEN 0
  ELSE LET n == CHOOSE x \in names : TRUE
       IN (IF field = "errors" THEN map[n].errors ELSE map[n].warnings)
          + SumResults(map, names \ {n}, field)

C26_TotalsAreSums ==
  /\ metrics.errors = SumInserted(inserted, "errors")
  /\ metrics.warnings = SumInserted(inserted, "warnings")
  /\ metrics.lintedPackages = Len(inserted)
  /\ DistinctNames(packages) =>
       /\ metrics.errors = SumResults(metrics.packageResults, DOMAIN metrics.packageResults, "errors")
       /\ metrics.warnings = SumResults(metrics.packageResults, DOMAIN metrics.packageResults, "warnings")
       /\ metrics.lintedPackages = Cardinality(DOMAIN metrics.packageResults)

C26_TotalsChangeAtInsertion ==
  /\ metrics'.errors >= metrics.errors
  /\ metrics'.warnings >= metrics.warnings
  /\ metrics'.lintedPackages >= metrics.lintedPackages
  /\ (metrics'.errors # metrics.errors \/ metrics'.warnings # metrics.warnings
        \/ metrics'.lintedPackages # metrics.lintedPackages) =>
       (Len(inserted') > Len(inserted) /\ IsPrefix(inserted, inserted'))

\* C26: at every point of a run errors and warnings are the sums of the
\* errors and warnings of the results inserted so far and lintedPackages is
\* the number of insertions; the totals change only at an insertion and never
\* go down; with pairwise distinct package names they are the sums over the
\* packageResults map and lintedPackages is its number of entries.
C26_RunningTotals ==
  /\ []C26_TotalsAreSums
  /\ [][C26_TotalsChangeAtInsertion]_vars

C26_Witness ==
  /\ TiersDone
  /\ ~DistinctNames(packages)
  /\ Len(inserted) = 3
  /\ metrics.warnings = SumInserted(inserted, "warnings")
  /\ metrics.warnings >
       SumResults(metrics.packageResults, DOMAIN metrics.packageResults, "warnings")
  /\ metrics.errors > 0

(***************************************************************************)
(* The verdict of a gate run and the exit of the lint process.             *)
(***************************************************************************)
GateScored == gpc \in {"scored", "exited"}

\* C27: in a gate run that read the lint report there are 8 checks, or 9 with
\* the build check, and passed is TRUE iff at most one check failed: one
\* failed check alone does not fail the gate, two do.
C27_PassedIffAtMostOneFailed ==
  (GateScored /\ gateLog.read # <<>>) =>
    /\ Len(results.checks) = IF includeBuild THEN 9 ELSE 8
    /\ results.passed <=> Len(FailedChecks) <= 1

C27_Witness ==
  /\ GateScored
  /\ gateLog.read # <<>>
  /\ Len(results.checks) = 8
  /\ Len(FailedChecks) = 1
  /\ FailedChecks[1].name = "Error Count"
  /\ results.passed

\* C28: when checkLintQuality failed with an exception (the report cannot be
\* read, or the lint script it launched exited with a non-zero code) it has
\* appended one failed check 'Lint Quality' and none of the three lint checks
\* and has returned 0; the complete list then has 6 checks, 7 with the build
\* check, never none, and without the build check the run ends with
\* passed = FALSE.
C28_LintQualityFailure ==
  "Lint Quality" \in Range(gateLog.threw) =>
    /\ gateLog.returned = <<Num(0)>>
    /\ gateLog.read = <<>>
    /\ ChecksNamed("Lint Quality") = {1}
    /\ ~results.checks[1].passed
    /\ ChecksNamed("Lint Quality Score") \cup ChecksNamed("Error Count")
         \cup ChecksNamed("Warning Count") = {}
    /\ GateDone => Len(results.checks) = IF includeBuild THEN 7 ELSE 6
    /\ (GateScored /\ ~includeBuild) => ~results.passed

C28_Witness ==
  /\ gateExit = <<1>>
  /\ ~includeBuild
  /\ gateLog.threw = <<"Lint Quality">>
  /\ Len(FailedChecks) = 1
  /\ Len(results.checks) = 6
  /\ results.score = Num(83)

\* C29: in a run of at least one package in which every tool invocation
\* failed or timed out, every package has the result of 1 error and 0
\* warnings, the totals are errors = lintedPackages and warnings = 0, and the
\* finalized score is exactly 90.
C29_AllFailedScores90 ==
  (TiersDone /\ Len(packages) >= 1 /\ \A k \in DOMAIN invocations : invocations[k].threw) =>
    /\ Len(inserted) = Len(packages)
    /\ \A x \in DOMAIN inserted :
         inserted[x].result.errors = 1 /\ inserted[x].result.warnings = 0
    /\ metrics.errors = metrics.lintedPackages
    /\ metrics.lintedPackages = Len(packages)
    /\ metrics.warnings = 0
    /\ finalizeCalls >= 1 => metrics.qualityScore = Num(9000)
    /\ written => reportFile.qualityScore = Num(9000)

C29_Witness ==
  /\ pc = "exited"
  /\ written
  /\ Len(heavy) = 1 /\ Len(medium) = 1 /\ Len(light) = 1
  /\ \A k \in DOMAIN invocations : invocations[k].threw
  /\ metrics.errors = 3
  /\ metrics.qualityScore = Num(9000)

\* C30: the lint process exits with code 1 iff the finalized score is below
\* 70 or an exception reached the process boundary, and with code 0 for every
\* finalized score that is not below 70, the score of a run with no package
\* among them.
C30_ExitCodeOfLint ==
  pc = "exited" =>
    /\ exitCode \in {<<0>>, <<1>>}
    /\ exitCode = <<1>> <=>
         (~written \/ (metrics.qualityScore.t = "number" /\ metrics.qualityScore.v < 7000))

C30_Witness ==
  /\ pc = "exited"
  /\ written
  /\ Len(packages) = 0
  /\ exitCode = <<0>>

====
